---- MODULE Spec2Model ----
(***************************************************************************)
(* Model of the python-agent service: the Planner -> Coder -> Tester ->    *)
(* Fixer workflow (workflow.py), the three agents (agents/*.py), the       *)
(* StatusTracker (status_tracker.py) and the /generate and /status         *)
(* endpoints (main.py).                                                    *)
(*                                                                         *)
(* One /generate request is followed from its arrival to its response.     *)
(* The graph runtime hands every node, and the router _should_retry, the   *)
(* one state dictionary, as the node code assumes: each node mutates its   *)
(* argument and returns it.  Lists and dictionaries that the code mutates  *)
(* in place (logs, errors, context) are objects on a heap and the state    *)
(* holds references to them, so that dict.copy() is the shallow copy it is *)
(* in Python.  Results of the language-model calls are drawn from small    *)
(* sets of well-typed responses (models/state.py), or the call raises.     *)
(* Progress values are in tenths (0.5 is 5).                               *)
(***************************************************************************)
EXTENDS Integers, Sequences, FiniteSets, TLC

VARIABLES
    pc,         \* position of the request: idle, execute, planner, coder,
                \* tester, route, fixer, end, done
    st,         \* the live AgentWorkflowState dictionary of the request
    heap,       \* the mutable list/dict objects, by reference
    tracker,    \* StatusTracker._states
    response,   \* the AgentStateResponse of /generate, once returned
    runs,       \* history: how often each node has executed
    outcomes,   \* history: the result of each Tester execution, in order
    codes,      \* history: the response of each Coder call, in order
    raised,     \* history: the stage calls that raised, in order
    published,  \* history: current_step of each snapshot given to update()
    lock,       \* StatusTracker._lock: "free" or the thread that holds it
    callers,    \* the threads calling update, get and clear: the call each
                \* is in, its position in it, and what its last call returned
    linear      \* history: per workspace, the state of the most recent
                \* update with no later clear, NoneResult if there is none

tvars == <<lock, callers, linear>>

vars == <<pc, st, heap, tracker, response, runs, outcomes, codes, raised, published,
          lock, callers, linear>>

-----------------------------------------------------------------------------
(* Bounds and input sets *)

\* max_attempts ranges over 1..MaxAttemptsBound; /generate itself always
\* passes 3 (main.py line 79), execute accepts any initial state
MaxAttemptsBound == 3

Workspaces == {"ws1", "ws2"}

\* request.context as sent by the caller
CallerContexts == {[lang |-> "ts"]}

\* str(e) of an exception raised by a language-model call
ExcMsgs == {"timeout"}

\* the threads that call the StatusTracker at the same time
Threads == {"t1", "t2", "t3"}

-----------------------------------------------------------------------------
(* models/state.py *)

IDLE == "idle"
PLANNING == "planning"
CODING == "coding"
TESTING == "testing"
FIXING == "fixing"
COMPLETE == "complete"
FAILED == "failed"

AgentStep == {IDLE, PLANNING, CODING, TESTING, FIXING, COMPLETE, FAILED}

\* Python's None for plan (a string otherwise) and for test_results
NonePlan == "<None>"
NoneResult == [none |-> TRUE]

FileChange(p, c, a, l) == [path |-> p, content |-> c, action |-> a, language |-> l]

\* str(x) as an f-string renders an Optional[str]
PyStr(x) == IF x = NonePlan THEN "None" ELSE x

\* sep.join(xs)
RECURSIVE Join(_, _)
Join(xs, sep) ==
    IF xs = <<>> THEN ""
    ELSE IF Len(xs) = 1 THEN xs[1]
    ELSE xs[1] \o sep \o Join(Tail(xs), sep)

\* d[k] = v on a dict
Put(d, k, v) == [x \in DOMAIN d \cup {k} |-> IF x = k THEN v ELSE d[x]]

\* an append that puts the new entry in front
Append_front(h, r, x) == [h EXCEPT ![r] = <<x>> \o @]

\* list.append on the heap object r
Append_(h, r, x) == [h EXCEPT ![r] = Append(@, x)]

\* dict item assignment on the heap object r
SetItem(h, r, k, v) == [h EXCEPT ![r] = Put(@, k, v)]

-----------------------------------------------------------------------------
(* status_tracker.py *)

\* dict.copy(): a new dictionary with the same values, references included
Copy(s) == s

\* StatusTracker.update
Update(t, k, s) == [x \in DOMAIN t \cup {k} |-> IF x = k THEN Copy(s) ELSE t[x]]

\* StatusTracker.clear
ClearKey(t, k) == [x \in DOMAIN t \ {k} |-> t[x]]

\* a progress table that marks a failed run with -1
ProgressMap_failedNegative(step) ==
    CASE step = IDLE     -> 0
      [] step = PLANNING -> 2
      [] step = CODING   -> 5
      [] step = TESTING  -> 8
      [] step = FIXING   -> 8
      [] step = COMPLETE -> 10
      [] step = FAILED   -> -1
      [] OTHER           -> 0

\* progress_map.get(current_step, 0.0)
ProgressMap(step) ==
    CASE step = IDLE     -> 0
      [] step = PLANNING -> 2
      [] step = CODING   -> 5
      [] step = TESTING  -> 8
      [] step = FIXING   -> 8
      [] step = COMPLETE -> 10
      [] step = FAILED   -> 8
      [] OTHER           -> 0

EmptySummary ==
    [status |-> "idle", current_step |-> "none", progress |-> 0,
     logs |-> <<>>, files_generated |-> <<>>]

\* a status derivation that looks at current_step before success
SummaryStatus_failedFirst(s) ==
    IF s.current_step = FAILED THEN "failed"
    ELSE IF s.success THEN "complete" ELSE "processing"

SummaryStatus(s) ==
    IF s.success THEN "complete"
    ELSE IF s.current_step = FAILED THEN "failed" ELSE "processing"

\* StatusTracker.get: dict.get gives None for a missing key
Get(t, k) == IF k \in DOMAIN t THEN t[k] ELSE NoneResult

\* get_summary without the test for a missing snapshot: subscripting None
\* raises TypeError
GetSummary_noGuard(t, h, k) ==
    LET s == Get(t, k) IN
    IF s = NoneResult THEN [raises |-> TRUE, msg |-> "TypeError"]
    ELSE [status |-> SummaryStatus(s),
          current_step |-> s.current_step,
          progress |-> ProgressMap(s.current_step),
          logs |-> h[s.logs],
          files_generated |-> s.final_files,
          errors |-> h[s.errors],
          attempt_count |-> s.attempt_count]

\* StatusTracker.get_summary, on tracker t and heap h; "not state" is true
\* of None and of an empty dictionary
GetSummary(t, h, k) ==
    LET s == Get(t, k) IN
    IF s = NoneResult \/ s = <<>> THEN EmptySummary
    ELSE [status |-> SummaryStatus(s),
          current_step |-> s.current_step,
          progress |-> ProgressMap(s.current_step),
          logs |-> h[s.logs],
          files_generated |-> s.final_files,
          errors |-> h[s.errors],
          attempt_count |-> s.attempt_count]

\* a thread between two calls of the tracker, with what its last call gave
Resting(ret) == [pc |-> "idle", op |-> "none", key |-> "none",
                 arg |-> NoneResult, ret |-> ret]

-----------------------------------------------------------------------------
Init ==
    /\ pc = "idle"
    /\ st = NoneResult
    /\ heap = <<>>
    /\ tracker = <<>>
    /\ response = NoneResult
    /\ runs = [planner |-> 0, coder |-> 0, tester |-> 0, fixer |-> 0]
    /\ outcomes = <<>>
    /\ codes = <<>>
    /\ raised = <<>>
    /\ published = <<>>
    /\ lock = "free"
    /\ callers = [t \in Threads |-> Resting(NoneResult)]
    /\ linear = [k \in Workspaces |-> NoneResult]

\* main.py generate_code, up to the call of execute
InitialState(ws, n, h) ==
    [prompt |-> "add a login page",
     workspace_id |-> ws,
     existing_files |-> <<>>,
     context |-> Len(h) + 1,
     current_step |-> IDLE,
     attempt_count |-> 0,
     max_attempts |-> n,
     plan |-> NonePlan,
     tasks |-> <<>>,
     files_to_create |-> <<>>,
     files_to_update |-> <<>>,
     test_results |-> NoneResult,
     validation_errors |-> <<>>,
     logs |-> Len(h) + 2,
     errors |-> Len(h) + 3,
     success |-> FALSE,
     final_files |-> <<>>]

GenerateCode ==
    /\ pc = "idle"
    /\ \E ws \in Workspaces, n \in 1..MaxAttemptsBound, ctx \in CallerContexts :
         LET s == InitialState(ws, n, heap) IN
         /\ heap' = heap \o <<ctx, <<>>, <<>>>>
         /\ st' = s
         /\ tracker' = Update(tracker, ws, s)
         /\ published' = Append(published, s.current_step)
    /\ pc' = "execute"
    /\ UNCHANGED <<tvars, response, runs, outcomes, codes, raised>>

-----------------------------------------------------------------------------
(* Responses of the language-model calls *)

Raise(m) == [raises |-> TRUE, msg |-> m]
Return(c) == [raises |-> FALSE, content |-> c]

\* response.content of the Planner's call
PlanTexts ==
    {"Build the login page.",
     "1. Create the login form component\n2. Wire it"}

\* response.content of the Coder's call, as _parse_code_output returns it
\* (json.loads of the text)
CodeOutputs ==
    {[files_to_create |-> <<FileChange("login.tsx", "v1", "create", "typescript")>>,
      files_to_update |-> <<>>],
     [files_to_create |-> <<FileChange("auth.ts", "v2", "create", "typescript")>>,
      files_to_update |-> <<FileChange("app.tsx", "v2", "update", "typescript")>>]}

\* response.content of the Tester's call
TestOutputs ==
    {"{\"passed\": true, \"errors\": []}",
     "{\"passed\": false, \"errors\": [\"missing import\"]}",
     "{\"passed\": false, \"errors\": []}",
     "Looks fine to me."}

Responses(contents) == {Return(c) : c \in contents} \cup {Raise(m) : m \in ExcMsgs}

\* what a node gives back to the graph: the state it returns, or the
\* exception it lets escape
Returned(s, h) == [st |-> s, heap |-> h, uncaught |-> FALSE, msg |-> ""]
Propagated(s, h, m) == [st |-> s, heap |-> h, uncaught |-> TRUE, msg |-> m]

-----------------------------------------------------------------------------
(* agents/planner.py *)

\* PlannerAgent._extract_tasks on the texts of PlanTexts: a line is a task
\* when it starts with a digit, "-" or "*" and, stripped of that prefix, is
\* longer than 10 characters; no task at all gives the one default task
ExtractTasks(plan_text) ==
    CASE plan_text = "Build the login page." ->
           <<"Implement the requested feature">>
      [] plan_text = "1. Create the login form component\n2. Wire it" ->
           <<"Create the login form component">>
      [] OTHER -> <<"Implement the requested feature">>

\* plan without its try/except: the exception of the call escapes
Plan_uncaught(s, h, r) ==
    LET s0 == [s EXCEPT !.success = FALSE] IN
    IF r.raises
    THEN Propagated(s0, h, r.msg)
    ELSE LET tasks == ExtractTasks(r.content) IN
         Returned([s0 EXCEPT !.plan = r.content,
                             !.tasks = tasks,
                             !.current_step = PLANNING],
                  Append_(h, s.logs, "[Planner] Generated plan with "
                                     \o ToString(Len(tasks)) \o " tasks"))

\* plan whose except block falls back to the one default task
Plan_defaultTaskOnFailure(s, h, r) ==
    LET s0 == [s EXCEPT !.success = FALSE] IN
    IF r.raises
    THEN Returned([s0 EXCEPT !.tasks = <<"Implement the requested feature">>],
                  Append_(Append_(h, s.errors, "[Planner Error] " \o r.msg),
                          s.logs, "[Planner] Failed: " \o r.msg))
    ELSE LET tasks == ExtractTasks(r.content) IN
         Returned([s0 EXCEPT !.plan = r.content,
                             !.tasks = tasks,
                             !.current_step = PLANNING],
                  Append_(h, s.logs, "[Planner] Generated plan with "
                                     \o ToString(Len(tasks)) \o " tasks"))

\* PlannerAgent.plan
Plan(s, h, r) ==
    LET s0 == [s EXCEPT !.success = FALSE] IN
    IF r.raises
    THEN Returned(s0,
                  Append_(Append_(h, s.errors, "[Planner Error] " \o r.msg),
                          s.logs, "[Planner] Failed: " \o r.msg))
    ELSE LET tasks == ExtractTasks(r.content) IN
         Returned([s0 EXCEPT !.plan = r.content,
                             !.tasks = tasks,
                             !.current_step = PLANNING],
                  Append_(h, s.logs, "[Planner] Generated plan with "
                                     \o ToString(Len(tasks)) \o " tasks"))

(* agents/coder.py *)

\* CoderAgent.code
Code(s, h, r) ==
    IF r.raises
    THEN Returned(s,
                  Append_(Append_(h, s.errors, "[Coder Error] " \o r.msg),
                          s.logs, "[Coder] Failed: " \o r.msg))
    ELSE LET total_files == Len(r.content.files_to_create)
                            + Len(r.content.files_to_update) IN
         Returned([s EXCEPT !.files_to_create = r.content.files_to_create,
                            !.files_to_update = r.content.files_to_update,
                            !.current_step = CODING],
                  Append_(h, s.logs, "[Coder] Generated "
                                     \o ToString(total_files) \o " files"))

(* agents/tester.py *)

\* TesterAgent._parse_test_output on the texts of TestOutputs: the JSON
\* object between the first "{" and the last "}" when there is one, else
\* passed iff none of error, fail, bug, issue, problem occurs in the text
ParseTestOutput(output) ==
    CASE output = "{\"passed\": true, \"errors\": []}" ->
           [passed |-> TRUE, errors |-> <<>>, output |-> output]
      [] output = "{\"passed\": false, \"errors\": [\"missing import\"]}" ->
           [passed |-> FALSE, errors |-> <<"missing import">>, output |-> output]
      [] output = "{\"passed\": false, \"errors\": []}" ->
           [passed |-> FALSE, errors |-> <<>>, output |-> output]
      [] output = "Looks fine to me." ->
           [passed |-> TRUE, errors |-> <<>>, output |-> output]
      [] OTHER ->
           [passed |-> FALSE, errors |-> <<"Validation failed - see output">>,
            output |-> output]

\* final_files without the updated files
FinalFiles_createOnly(s) == s.files_to_create

\* the value TesterAgent.test gives final_files
FinalFiles(s) == s.files_to_create \o s.files_to_update

\* the condition under which TesterAgent.test announces a retry
WillRetry(s) == s.attempt_count < s.max_attempts

\* a Tester that hands out the files of a failed attempt as final_files
Test_filesOnFailure(s, h, r) ==
    IF r.raises
    THEN Returned([s EXCEPT !.success = FALSE],
                  Append_(Append_(h, s.errors, "[Tester Error] " \o r.msg),
                          s.logs, "[Tester] Failed: " \o r.msg))
    ELSE LET test_result == ParseTestOutput(r.content)
             s1 == [s EXCEPT !.test_results = test_result,
                             !.validation_errors = test_result.errors,
                             !.current_step = TESTING]
         IN
         IF test_result.passed
         THEN Returned([s1 EXCEPT !.success = TRUE,
                                  !.final_files = FinalFiles(s1)],
                       Append_(h, s.logs, "[Tester] All tests passed"))
         ELSE LET h1 == Append_(h, s.logs, "[Tester] Found "
                            \o ToString(Len(test_result.errors)) \o " errors")
              IN
              IF WillRetry(s1)
              THEN Returned([s1 EXCEPT !.success = FALSE,
                                       !.final_files = FinalFiles(s1)],
                            Append_(h1, s.logs, "[Tester] Will retry (attempt "
                                \o ToString(s1.attempt_count + 1) \o "/"
                                \o ToString(s1.max_attempts) \o ")"))
              ELSE Returned([s1 EXCEPT !.success = FALSE,
                                       !.current_step = FAILED],
                            Append_(h1, s.logs,
                                    "[Tester] Max attempts reached, failing"))

\* TesterAgent.test
Test(s, h, r) ==
    IF r.raises
    THEN Returned([s EXCEPT !.success = FALSE],
                  Append_(Append_(h, s.errors, "[Tester Error] " \o r.msg),
                          s.logs, "[Tester] Failed: " \o r.msg))
    ELSE LET test_result == ParseTestOutput(r.content)
             s1 == [s EXCEPT !.test_results = test_result,
                             !.validation_errors = test_result.errors,
                             !.current_step = TESTING]
         IN
         IF test_result.passed
         THEN Returned([s1 EXCEPT !.success = TRUE,
                                  !.final_files = FinalFiles(s1)],
                       Append_(h, s.logs, "[Tester] All tests passed"))
         ELSE LET h1 == Append_(h, s.logs, "[Tester] Found "
                            \o ToString(Len(test_result.errors)) \o " errors")
              IN
              IF WillRetry(s1)
              THEN Returned([s1 EXCEPT !.success = FALSE],
                            Append_(h1, s.logs, "[Tester] Will retry (attempt "
                                \o ToString(s1.attempt_count + 1) \o "/"
                                \o ToString(s1.max_attempts) \o ")"))
              ELSE Returned([s1 EXCEPT !.success = FALSE,
                                       !.current_step = FAILED],
                            Append_(h1, s.logs,
                                    "[Tester] Max attempts reached, failing"))

-----------------------------------------------------------------------------
(* workflow.py *)

\* the ceiling compared with the attempts spent, without the pending one
Exhausted_lax(attempt_count, max_attempts) == attempt_count >= max_attempts

\* the test of _should_retry that stops the loop
Exhausted(attempt_count, max_attempts) == (attempt_count + 1) >= max_attempts

\* _should_retry ending an exhausted run without marking it failed
ShouldRetry_noFailedStep(s, h) ==
    IF s.success
    THEN [route |-> "end", st |-> [s EXCEPT !.current_step = COMPLETE], heap |-> h]
    ELSE IF Exhausted(s.attempt_count, s.max_attempts)
    THEN [route |-> "end",
          st |-> [s EXCEPT !.success = FALSE],
          heap |-> Append_(h, s.logs, "[Workflow] Max attempts ("
                              \o ToString(s.max_attempts) \o ") reached - failing")]
    ELSE [route |-> "retry", st |-> [s EXCEPT !.current_step = FIXING], heap |-> h]

\* a routing that also looks at validation_errors: with nothing to feed the
\* Fixer it gives up
ShouldRetry_stopsWithoutErrors(s, h) ==
    IF s.success
    THEN [route |-> "end", st |-> [s EXCEPT !.current_step = COMPLETE], heap |-> h]
    ELSE IF Exhausted(s.attempt_count, s.max_attempts) \/ s.validation_errors = <<>>
    THEN [route |-> "end",
          st |-> [s EXCEPT !.current_step = FAILED, !.success = FALSE],
          heap |-> Append_(h, s.logs, "[Workflow] Max attempts ("
                              \o ToString(s.max_attempts) \o ") reached - failing")]
    ELSE [route |-> "retry", st |-> [s EXCEPT !.current_step = FIXING], heap |-> h]

\* a routing that goes round again until the ceiling, whatever the Test said
ShouldRetry_retryOnPass(s, h) ==
    IF Exhausted(s.attempt_count, s.max_attempts)
    THEN IF s.success
         THEN [route |-> "end", st |-> [s EXCEPT !.current_step = COMPLETE], heap |-> h]
         ELSE [route |-> "end",
               st |-> [s EXCEPT !.current_step = FAILED, !.success = FALSE],
               heap |-> Append_(h, s.logs, "[Workflow] Max attempts ("
                              \o ToString(s.max_attempts) \o ") reached - failing")]
    ELSE [route |-> "retry", st |-> [s EXCEPT !.current_step = FIXING], heap |-> h]

\* AgentWorkflow._should_retry: the route taken, with the state it leaves


ShouldRetry(s, h) ==
    IF s.success
    THEN [route |-> "end", st |-> [s EXCEPT !.current_step = COMPLETE], heap |-> h]
    ELSE IF Exhausted(s.attempt_count, s.max_attempts)
    THEN [route |-> "end",
          st |-> [s EXCEPT !.current_step = FAILED, !.success = FALSE],
          heap |-> Append_(h, s.logs, "[Workflow] Max attempts ("
                              \o ToString(s.max_attempts) \o ") reached - failing")]
    ELSE [route |-> "retry", st |-> [s EXCEPT !.current_step = FIXING], heap |-> h]

\* the block _fixer_node appends to the plan
ErrorBlock(error_context) ==
    "\n\nCRITICAL: Previous attempt failed with these errors:\n"
    \o error_context
    \o "\n\nYou MUST fix these errors in the next implementation. Review the errors carefully and ensure the code addresses each issue."

\* a Fixer that empties validation_errors once it has copied them into the
\* plan
Fixer_consumesErrors(s, h) ==
    LET n == s.attempt_count + 1
        error_context == Join(s.validation_errors, "\n")
    IN Returned([s EXCEPT !.attempt_count = n,
                          !.validation_errors = <<>>,
                          !.plan = PyStr(s.plan) \o ErrorBlock(error_context)],
                SetItem(SetItem(Append_(h, s.logs,
                                  "[Workflow] Retry attempt " \o ToString(n)
                                  \o "/" \o ToString(s.max_attempts)),
                                s.context, "previous_errors", error_context),
                        s.context, "retry_attempt", n))

\* AgentWorkflow._fixer_node
Fixer(s, h) ==
    LET n == s.attempt_count + 1
        error_context == Join(s.validation_errors, "\n")
    IN Returned([s EXCEPT !.attempt_count = n,
                          !.plan = PyStr(s.plan) \o ErrorBlock(error_context)],
                SetItem(SetItem(Append_(h, s.logs,
                                  "[Workflow] Retry attempt " \o ToString(n)
                                  \o "/" \o ToString(s.max_attempts)),
                                s.context, "previous_errors", error_context),
                        s.context, "retry_attempt", n))

\* execute counting the first attempt as attempt 1
ExecuteInit_startAtOne(s) ==
    [s EXCEPT !.current_step = PLANNING, !.attempt_count = 1, !.success = FALSE]

\* AgentWorkflow.execute, up to the call of the graph: logs and errors are
\* present in every state main.py builds, so the .get defaults are unused
ExecuteInit(s) ==
    [s EXCEPT !.current_step = PLANNING, !.attempt_count = 0, !.success = FALSE]

\* the except block of AgentWorkflow.execute
ExecuteExcept(s, h, m) ==
    [st |-> [s EXCEPT !.current_step = FAILED, !.success = FALSE],
     heap |-> Append_(h, s.errors, "[Workflow Error] " \o m)]

\* the graph moves on from a node: to the next node with the state the node
\* returned, or out of ainvoke into the except block of execute
Advance(o, next) ==
    IF o.uncaught
    THEN LET e == ExecuteExcept(o.st, o.heap, o.msg)
         IN st' = e.st /\ heap' = e.heap /\ pc' = "end"
    ELSE st' = o.st /\ heap' = o.heap /\ pc' = next

Execute ==
    /\ pc = "execute"
    /\ st' = ExecuteInit(st)
    /\ pc' = "planner"
    /\ UNCHANGED <<tvars, heap, tracker, response, runs, outcomes, codes, raised, published>>

\* AgentWorkflow._planner_node
PlannerNode ==
    /\ pc = "planner"
    /\ \E r \in Responses(PlanTexts) :
         /\ Advance(Plan(st, Append_(heap, st.logs, "[Workflow] Running Planner agent..."), r),
                    "coder")
         /\ raised' = IF r.raises
                      THEN Append(raised, [stage |-> "Planner", msg |-> r.msg])
                      ELSE raised
    /\ runs' = [runs EXCEPT !.planner = @ + 1]
    /\ UNCHANGED <<tvars, tracker, response, outcomes, codes, published>>

\* AgentWorkflow._coder_node
CoderNode ==
    /\ pc = "coder"
    /\ \E r \in Responses(CodeOutputs) :
         /\ Advance(Code(st, Append_(heap, st.logs, "[Workflow] Running Coder agent..."), r),
                    "tester")
         /\ raised' = IF r.raises
                      THEN Append(raised, [stage |-> "Coder", msg |-> r.msg])
                      ELSE raised
         /\ codes' = Append(codes, r)
    /\ runs' = [runs EXCEPT !.coder = @ + 1]
    /\ UNCHANGED <<tvars, tracker, response, outcomes, published>>

\* what one Tester execution came to
Outcome(r) ==
    IF r.raises THEN "raise"
    ELSE IF ParseTestOutput(r.content).passed THEN "pass" ELSE "fail"

\* AgentWorkflow._tester_node
TesterNode ==
    /\ pc = "tester"
    /\ \E r \in Responses(TestOutputs) :
         /\ Advance(Test(st, Append_(heap, st.logs, "[Workflow] Running Tester agent..."), r),
                    "route")
         /\ raised' = IF r.raises
                      THEN Append(raised, [stage |-> "Tester", msg |-> r.msg])
                      ELSE raised
         /\ outcomes' = Append(outcomes, Outcome(r))
    /\ runs' = [runs EXCEPT !.tester = @ + 1]
    /\ UNCHANGED <<tvars, tracker, response, codes, published>>

\* the conditional edge after the tester node
Route ==
    /\ pc = "route"
    /\ LET o == ShouldRetry(st, heap)
       IN /\ st' = o.st
          /\ heap' = o.heap
          /\ pc' = IF o.route = "retry" THEN "fixer" ELSE "end"
    /\ UNCHANGED <<tvars, tracker, response, runs, outcomes, codes, raised, published>>

\* the fixer node and its edge back to the coder
FixerNode ==
    /\ pc = "fixer"
    /\ Advance(Fixer(st, heap), "coder")
    /\ runs' = [runs EXCEPT !.fixer = @ + 1]
    /\ UNCHANGED <<tvars, tracker, response, outcomes, codes, raised, published>>

-----------------------------------------------------------------------------
(* main.py *)

\* the AgentStateResponse generate_code builds from the final state
StartResponse(s, h) ==
    [status |-> IF s.success THEN "complete" ELSE "failed",
     current_step |-> s.current_step,
     progress |-> IF s.success THEN 10 ELSE 5,
     logs |-> h[s.logs],
     files_generated |-> s.final_files,
     errors |-> h[s.errors]]

\* generate_code after execute has returned
GenerateCodeReturn ==
    /\ pc = "end"
    /\ tracker' = Update(tracker, st.workspace_id, st)
    /\ published' = Append(published, st.current_step)
    /\ response' = StartResponse(st, heap)
    /\ pc' = "done"
    /\ UNCHANGED <<tvars, st, heap, runs, outcomes, codes, raised>>

\* StatusTracker.clear, called at any time for any workspace
Clear ==
    /\ \E k \in Workspaces :
         /\ k \in DOMAIN tracker
         /\ tracker' = ClearKey(tracker, k)
    /\ UNCHANGED <<tvars, pc, st, heap, response, runs, outcomes, codes, raised, published>>

-----------------------------------------------------------------------------
(* status_tracker.py under concurrent callers *)

wvars == <<pc, st, heap, response, runs, outcomes, codes, raised, published>>

\* the states the callers hand to update(k, state)
SnapshotsFor(k) ==
    {[InitialState(k, MaxAttemptsBound, <<>>) EXCEPT !.current_step = step] :
        step \in {IDLE, COMPLETE}}

InCall(op, k, arg, at) ==
    [pc |-> at, op |-> op, key |-> k, arg |-> arg, ret |-> NoneResult]

\* an acquire that does not wait for the holder
CanAcquire_always(l) == TRUE

\* Lock.acquire of "with self._lock": it goes through only on a free lock
CanAcquire(l) == l = "free"

\* a thread calls update, get or clear
Call(t) ==
    /\ callers[t].pc = "idle"
    /\ \E k \in Workspaces :
         \/ \E s \in SnapshotsFor(k) :
              callers' = [callers EXCEPT ![t] = InCall("update", k, s, "acquire")]
         \/ callers' = [callers EXCEPT ![t] = InCall("get", k, NoneResult, "acquire")]
         \/ callers' = [callers EXCEPT ![t] = InCall("clear", k, NoneResult, "acquire")]
    /\ UNCHANGED <<wvars, tracker, lock, linear>>

\* entering the with block
Acquire(t) ==
    /\ callers[t].pc = "acquire"
    /\ CanAcquire(lock)
    /\ lock' = t
    /\ callers' = [callers EXCEPT ![t].pc =
                      CASE callers[t].op = "update" -> "store"
                        [] callers[t].op = "get"    -> "read"
                        [] OTHER                    -> "check"]
    /\ UNCHANGED <<wvars, tracker, linear>>

\* update: self._states[workspace_id] = state.copy()
UpdateStore(t) ==
    /\ callers[t].pc = "store"
    /\ tracker' = Update(tracker, callers[t].key, callers[t].arg)
    /\ linear' = [linear EXCEPT ![callers[t].key] = callers[t].arg]
    /\ callers' = [callers EXCEPT ![t].pc = "release"]
    /\ UNCHANGED <<wvars, lock>>

\* get: return self._states.get(workspace_id)
GetRead(t) ==
    /\ callers[t].pc = "read"
    /\ callers' = [callers EXCEPT ![t].pc = "release",
                                  ![t].ret = Get(tracker, callers[t].key)]
    /\ UNCHANGED <<wvars, tracker, lock, linear>>

\* clear: if workspace_id in self._states
ClearCheck(t) ==
    /\ callers[t].pc = "check"
    /\ callers' = [callers EXCEPT ![t].pc =
                      IF callers[t].key \in DOMAIN tracker THEN "del" ELSE "release"]
    /\ UNCHANGED <<wvars, tracker, lock, linear>>

\* clear: del self._states[workspace_id], a KeyError when the key is gone
ClearDel(t) ==
    /\ callers[t].pc = "del"
    /\ IF callers[t].key \in DOMAIN tracker
       THEN /\ tracker' = ClearKey(tracker, callers[t].key)
            /\ linear' = [linear EXCEPT ![callers[t].key] = NoneResult]
            /\ callers' = [callers EXCEPT ![t].pc = "release"]
       ELSE /\ callers' = [callers EXCEPT ![t].pc = "release",
                                          ![t].ret = Raise("KeyError")]
            /\ UNCHANGED <<tracker, linear>>
    /\ UNCHANGED <<wvars, lock>>

\* leaving the with block, by return or by exception, and the call returning
Release(t) ==
    /\ callers[t].pc = "release"
    /\ lock' = "free"
    /\ callers' = [callers EXCEPT ![t] = Resting(callers[t].ret)]
    /\ UNCHANGED <<wvars, tracker, linear>>

Next ==
    \/ GenerateCode
    \/ Execute
    \/ PlannerNode
    \/ CoderNode
    \/ TesterNode
    \/ Route
    \/ FixerNode
    \/ GenerateCodeReturn
    \/ Clear

Spec == Init /\ [][Next]_vars

TrackerNext ==
    \E t \in Threads :
        \/ Call(t)
        \/ Acquire(t)
        \/ UpdateStore(t)
        \/ GetRead(t)
        \/ ClearCheck(t)
        \/ ClearDel(t)
        \/ Release(t)

\* the StatusTracker alone, called by the threads of Threads
TrackerSpec == Init /\ [][TrackerNext]_vars

\* every language-model call returns or raises, and the event loop runs
\* every step of the request that is ready
FairSpec ==
    /\ Spec
    /\ WF_vars(GenerateCode) /\ WF_vars(Execute) /\ WF_vars(PlannerNode)
    /\ WF_vars(CoderNode) /\ WF_vars(TesterNode) /\ WF_vars(Route)
    /\ WF_vars(FixerNode) /\ WF_vars(GenerateCodeReturn)

-----------------------------------------------------------------------------
(* Properties *)

Started == pc # "idle"
Ended == pc \in {"end", "done"}
Terminal == st.current_step \in {COMPLETE, FAILED}
NoPass == \A i \in 1..Len(outcomes) : outcomes[i] # "pass"
LastOutcome == outcomes[Len(outcomes)]

\* C1: in one run of execute with max_attempts = N, the Coder and the Tester
\* each execute at most N times, and exactly N times when the run has ended
\* and no Test attempt passed.
C1_AttemptsCapped ==
    Started =>
        /\ runs.coder <= st.max_attempts
        /\ runs.tester <= st.max_attempts
        /\ (Ended /\ NoPass) =>
               /\ runs.coder = st.max_attempts
               /\ runs.tester = st.max_attempts

C1_Witness ==
    /\ pc = "done"
    /\ st.max_attempts = 3
    /\ NoPass
    /\ runs.coder = 3
    /\ runs.tester = 3

\* C2: once a Tester execution reports passed, it was the last execution of
\* any node: the run ends on that attempt with success set, current_step
\* COMPLETE and final_files = files_to_create followed by files_to_update
\* (the output of that attempt's Coder call when it returned one), whatever
\* the attempts left.
C2_PassEndsRun ==
    (Started /\ ~NoPass) =>
        /\ LastOutcome = "pass"
        /\ \A i \in 1..(Len(outcomes) - 1) : outcomes[i] # "pass"
        /\ pc \in {"route", "end", "done"}
        /\ runs.coder = Len(outcomes)
        /\ runs.tester = Len(outcomes)
        /\ runs.fixer = Len(outcomes) - 1
        /\ st.success
        /\ st.final_files = st.files_to_create \o st.files_to_update
        /\ ~codes[Len(codes)].raises =>
               st.final_files = codes[Len(codes)].content.files_to_create
                                \o codes[Len(codes)].content.files_to_update
        /\ Ended => st.current_step = COMPLETE

C2_Witness ==
    /\ pc = "done"
    /\ st.max_attempts = 3
    /\ outcomes = <<"pass">>
    /\ st.final_files # <<>>
    /\ st.current_step = COMPLETE

\* C3: when the run has returned, either the Test failed k times and then
\* passed (k < N): k+1 Coder/Tester cycles, status complete, attempt_count = k;
\* or the Test failed all N times: N cycles, N-1 retries, status failed,
\* attempt_count = N-1.
C3_AttemptCountAtEnd ==
    pc = "done" =>
        LET n == Len(outcomes)
            N == st.max_attempts
        IN IF LastOutcome = "pass"
           THEN /\ n - 1 < N
                /\ runs.coder = n
                /\ runs.tester = n
                /\ runs.fixer = n - 1
                /\ st.attempt_count = n - 1
                /\ response.status = "complete"
           ELSE /\ n = N
                /\ runs.coder = N
                /\ runs.tester = N
                /\ runs.fixer = N - 1
                /\ st.attempt_count = N - 1
                /\ response.status = "failed"

C3_Witness ==
    /\ pc = "done"
    /\ st.max_attempts = 3
    /\ outcomes = <<"fail", "fail", "pass">>
    /\ st.attempt_count = 2
    /\ response.status = "complete"

\* C4: when every stage call returns or raises, a started workflow
\* eventually has execute return to its caller with current_step COMPLETE
\* or FAILED.
C4_Terminates == (pc = "execute") ~> (pc = "done" /\ Terminal)

C4_Witness ==
    /\ pc = "done"
    /\ Terminal
    /\ runs.fixer = 2
    /\ Len(raised) >= 1

\* C5: the progress values get_summary derives from the snapshots published
\* during one run never decrease from one snapshot to the next.
C5_PublishedProgressMonotone ==
    \A i \in 1..(Len(published) - 1) :
        ProgressMap(published[i]) <= ProgressMap(published[i + 1])

C5_Witness ==
    /\ Len(published) = 2
    /\ published[2] = FAILED

\* C6: a published snapshot is an immutable copy: as long as no update or
\* clear touches the tracker, what get_summary returns for a workspace does
\* not change, whatever the engine does to the live state.
C6_SnapshotImmutable ==
    [][tracker' = tracker =>
         \A k \in Workspaces :
             GetSummary(tracker', heap', k) = GetSummary(tracker, heap, k)]_vars

\* C7: after every transition of the workflow the state is published: while
\* the request waits at a stage, or has returned, the status reported for its
\* workspace shows the current_step the workflow has reached.
C7_PublishedAfterEachTransition ==
    (pc \in {"planner", "coder", "tester", "fixer", "done"}
       /\ st.workspace_id \in DOMAIN tracker) =>
        GetSummary(tracker, heap, st.workspace_id).current_step = st.current_step

\* C8: get_summary for a workspace without a stored snapshot, never
\* published or cleared since, returns the fixed empty summary and does not
\* raise.
C8_EmptySummaryForUnknown ==
    \A k \in Workspaces :
        k \notin DOMAIN tracker =>
            GetSummary(tracker, heap, k) =
                [status |-> "idle", current_step |-> "none", progress |-> 0,
                 logs |-> <<>>, files_generated |-> <<>>]

C8_Witness ==
    /\ pc = "tester"
    /\ published = <<IDLE>>
    /\ tracker = <<>>

\* the entry a stage appends to errors when its call raises
ErrorEntry(x) == "[" \o x.stage \o " Error] " \o x.msg

\* C9 as stated: a run in which a stage raised ends FAILED, with an entry in
\* errors.
C9_RaiseFailsRun ==
    (Ended /\ raised # <<>>) =>
        /\ heap[st.errors] # <<>>
        /\ st.current_step = FAILED

\* C9 as amended: every raise of a stage is caught in the stage and appends
\* its entry to errors, no exception reaches execute, and the run goes on:
\* it ends FAILED exactly when its last Test attempt did not pass, and
\* COMPLETE otherwise.
C9_RaiseCaughtRunContinues ==
    Started =>
        /\ Len(heap[st.errors]) = Len(raised)
        /\ \A i \in 1..Len(raised) : heap[st.errors][i] = ErrorEntry(raised[i])
        /\ Ended =>
               /\ outcomes # <<>>
               /\ st.current_step = IF LastOutcome = "pass" THEN COMPLETE ELSE FAILED

C9_Witness ==
    /\ pc = "done"
    /\ Len(raised) = 3
    /\ raised[1].stage = "Planner"
    /\ raised[2].stage = "Coder"
    /\ raised[3].stage = "Tester"
    /\ st.current_step = COMPLETE

PlannerRaised == raised # <<>> /\ raised[1].stage = "Planner"

\* C10: when the Planner's call raises, its entry is appended to errors, the
\* pipeline goes on to a Coder execution with plan and tasks still at their
\* defaults (None and the empty list), and the workflow reaches COMPLETE or
\* FAILED.
C10_PlannerFailureProceeds ==
    /\ [](PlannerRaised =>
            /\ heap[st.errors][1] = ErrorEntry(raised[1])
            /\ runs.coder = 0 =>
                   /\ pc = "coder"
                   /\ st.plan = NonePlan
                   /\ st.tasks = <<>>)
    /\ (PlannerRaised ~> runs.coder >= 1)
    /\ (PlannerRaised ~> (pc = "done" /\ Terminal))

C10_Witness ==
    /\ PlannerRaised
    /\ pc = "tester"
    /\ runs.coder = 1
    /\ st.plan = NonePlan
    /\ st.tasks = <<>>

\* the progress table of the specification, in tenths
TableProgress(step) ==
    IF step = IDLE THEN 0
    ELSE IF step = PLANNING THEN 2
    ELSE IF step = CODING THEN 5
    ELSE IF step \in {TESTING, FIXING, FAILED} THEN 8
    ELSE 10

\* the status derivation of the specification
TableStatus(success, step) ==
    IF success THEN "complete"
    ELSE IF step = FAILED THEN "failed" ELSE "processing"

SummaryAgrees(t, k) ==
    LET sum == GetSummary(t, heap, k) IN
    /\ sum.status = TableStatus(t[k].success, t[k].current_step)
    /\ sum.progress = TableProgress(t[k].current_step)
    /\ sum.current_step = t[k].current_step

\* C11: for every stored snapshot get_summary reports status complete when
\* success is set, else failed when current_step is FAILED, else processing,
\* and the progress of the table for the snapshot's current_step. It is
\* checked on the snapshots the tracker holds and, for each workspace, on a
\* stored snapshot of the live state with every step and success value.
C11_SummaryDerivation ==
    /\ \A k \in DOMAIN tracker : SummaryAgrees(tracker, k)
    /\ Started =>
         \A step \in AgentStep, b \in BOOLEAN, k \in Workspaces :
            SummaryAgrees(Update(tracker, k,
                [st EXCEPT !.current_step = step, !.success = b]), k)

C11_Witness ==
    /\ pc = "done"
    /\ \E k \in DOMAIN tracker :
         /\ tracker[k].current_step = FAILED
         /\ GetSummary(tracker, heap, k).status = "failed"
         /\ GetSummary(tracker, heap, k).progress = 8

\* the decision of the specification, from its three inputs: where the run
\* goes and the step it is left in
Decision(success, attempt_count, max_attempts) ==
    IF success THEN [pc |-> "end", step |-> COMPLETE]
    ELSE IF attempt_count + 1 >= max_attempts THEN [pc |-> "end", step |-> FAILED]
    ELSE [pc |-> "fixer", step |-> FIXING]

\* C12: the decision taken after each Test is a function of success,
\* attempt_count (before the Fixer increments it) and max_attempts alone:
\* end in success when success is set, end in failure when it is not and
\* attempt_count + 1 >= max_attempts, and the Fixer otherwise.
C12_RetryDecision ==
    [][(pc = "route" /\ pc' # "route") =>
          LET d == Decision(st.success, st.attempt_count, st.max_attempts) IN
          /\ pc' = d.pc
          /\ st'.current_step = d.step]_vars

\* the Fixer is chosen a second time, after a Test that left
\* validation_errors empty
C12_Witness ==
    /\ pc = "fixer"
    /\ st.attempt_count = 1
    /\ st.validation_errors = <<>>
    /\ Len(outcomes) = 2

\* C13: in every state of a run 0 <= attempt_count <= max_attempts;
\* attempt_count is 0 when Planning starts; only the Fixer changes it, and it
\* never decreases.
C13_AttemptCount ==
    /\ [](Started => (0 <= st.attempt_count /\ st.attempt_count <= st.max_attempts))
    /\ [](pc = "planner" => st.attempt_count = 0)
    /\ [][Started =>
            /\ st'.attempt_count >= st.attempt_count
            /\ (st'.attempt_count # st.attempt_count => (pc = "fixer" /\ pc' = "coder"))]_vars

\* the Fixer has raised attempt_count twice
C13_Witness ==
    /\ pc = "coder"
    /\ runs.fixer = 2
    /\ st.attempt_count = 2

\* the run ended without a passing Test: the retry ceiling stopped it
ExhaustedEnd == Ended /\ Len(outcomes) > 0 /\ LastOutcome # "pass"

\* C14: a run that ends because the retry ceiling is reached has current_step
\* FAILED and success false; once current_step is COMPLETE or FAILED no
\* stage executes any more and nothing of the workflow state changes, the
\* lists it refers to included.
C14_TerminalIsFinal ==
    /\ [](ExhaustedEnd => (st.current_step = FAILED /\ ~st.success))
    /\ [](Started /\ Terminal => Ended)
    /\ [][Started /\ Terminal =>
            (st' = st /\ heap' = heap /\ runs' = runs)]_vars

\* the ceiling ended a run of three attempts, and the response was built
\* from the failed state
C14_Witness ==
    /\ pc = "done"
    /\ st.current_step = FAILED
    /\ ~st.success
    /\ runs.tester = 3
    /\ st.attempt_count = 2

\* C15: every time the Fixer runs, the state it is given has success false
\* and validation_errors non-empty, also after a Test that reported
\* passed = false with no errors and after a Tester call that raised.
C15_FixerPrecondition ==
    pc = "fixer" => (~st.success /\ st.validation_errors # <<>>)

\* the half of the Fixer's precondition the code does keep
C15_FixerAfterFailure == pc = "fixer" => ~st.success

\* the text a plan field holds: none when the Planner has left it unset
PlanText(plan) == IF plan = NonePlan THEN "" ELSE plan

FixerStep == pc = "fixer" /\ pc' = "coder"

\* what a Fixer step does to attempt_count, context and logs
FixerBookkeeping ==
    LET error_context == Join(st.validation_errors, "\n") IN
    /\ st'.attempt_count = st.attempt_count + 1
    /\ st'.context = st.context /\ st'.logs = st.logs
    /\ heap'[st.context]["retry_attempt"] = st'.attempt_count
    /\ heap'[st.context]["previous_errors"] = error_context
    /\ Len(heap'[st.logs]) >= Len(heap[st.logs])
    /\ SubSeq(heap'[st.logs], 1, Len(heap[st.logs])) = heap[st.logs]

\* C16: each Fixer execution adds exactly 1 to attempt_count, stores the new
\* attempt_count under context['retry_attempt'] and the joined
\* validation_errors under context['previous_errors'], makes plan the
\* previous plan text followed by the error block, and keeps every earlier
\* log line in its place.
C16_FixerEffect ==
    [][FixerStep =>
          /\ FixerBookkeeping
          /\ st'.plan = PlanText(st.plan)
                           \o ErrorBlock(Join(st.validation_errors, "\n"))]_vars

\* what the code keeps of it: the bookkeeping always, the plan when the
\* Planner has produced one
C16_FixerEffectOnPlanText ==
    [][FixerStep =>
          /\ FixerBookkeeping
          /\ st.plan # NonePlan =>
                st'.plan = st.plan \o ErrorBlock(Join(st.validation_errors, "\n"))]_vars

\* C17: a Fixer execution leaves tasks, files_to_create, files_to_update,
\* test_results, validation_errors, success, final_files, errors and
\* max_attempts as they were.
C17_FixerFrame ==
    [][FixerStep =>
          /\ st'.tasks = st.tasks
          /\ st'.files_to_create = st.files_to_create
          /\ st'.files_to_update = st.files_to_update
          /\ st'.test_results = st.test_results
          /\ st'.validation_errors = st.validation_errors
          /\ st'.success = st.success
          /\ st'.final_files = st.final_files
          /\ st'.errors = st.errors
          /\ heap'[st.errors] = heap[st.errors]
          /\ st'.max_attempts = st.max_attempts]_vars

\* the Fixer has run on a state that holds tasks, files, a test result,
\* validation errors and an error entry
C17_Witness ==
    /\ pc = "coder"
    /\ runs.fixer = 2
    /\ st.tasks # <<>>
    /\ st.files_to_create # <<>>
    /\ st.test_results # NoneResult
    /\ st.validation_errors # <<>>
    /\ heap[st.errors] # <<>>

\* what the most recent Coder execution produced: its parsed output, and
\* nothing when its call raised
LastCoderOutput ==
    LET r == codes[Len(codes)] IN
    IF r.raises THEN [files_to_create |-> <<>>, files_to_update |-> <<>>]
    ELSE r.content

\* C18: after each Coder execution files_to_create and files_to_update hold
\* exactly what that execution produced and nothing of an earlier attempt, so
\* the Tester of attempt k validates the files of the Coder of attempt k,
\* also when the Coder call of attempt k raised.
C18_FilesOfThisAttempt ==
    pc = "tester" =>
        /\ st.files_to_create = LastCoderOutput.files_to_create
        /\ st.files_to_update = LastCoderOutput.files_to_update

\* what the code keeps of it: the files of a Coder call that returned
C18_FilesOfReturnedCall ==
    (pc = "tester" /\ ~codes[Len(codes)].raises) =>
        /\ st.files_to_create = codes[Len(codes)].content.files_to_create
        /\ st.files_to_update = codes[Len(codes)].content.files_to_update

\* C19: final_files is non-empty only when success is set; it is assigned by
\* the Tester step at which success becomes true and at no other step, so at
\* most once in a run, and it never changes afterwards.
C19_FinalFilesOnce ==
    /\ [](Started => (st.final_files # <<>> => st.success))
    /\ [][(Started /\ st'.final_files # st.final_files) =>
            /\ pc = "tester"
            /\ ~st.success /\ st'.success
            /\ st.final_files = <<>>]_vars
    /\ [][(Started /\ st.success) => st'.final_files = st.final_files]_vars

\* final_files was assigned by the Test of the third attempt and the run
\* went on to its end
C19_Witness ==
    /\ pc = "done"
    /\ st.success
    /\ st.final_files # <<>>
    /\ runs.tester = 3

\* C20: the progress of the table, applied to the current_step of the
\* workflow state, never decreases from one transition of a run to the
\* next, the retry path Testing -> Fixing -> Coding included.
C20_LiveProgressMonotone ==
    [][Started =>
          ProgressMap(st'.current_step) >= ProgressMap(st.current_step)]_vars

\* what the code keeps of it: progress decreases only where the Coder of a
\* retry sets current_step back to CODING
C20_DecreaseOnlyAtRetryCoder ==
    [][(Started /\ ProgressMap(st'.current_step) < ProgressMap(st.current_step)) =>
          /\ pc = "coder"
          /\ st.current_step = FIXING
          /\ st'.current_step = CODING]_vars

\* the keys whose stored entry a step changes
Touched == {k \in Workspaces : Get(tracker', k) # Get(tracker, k)}

\* C21: under every interleaving of update, get and clear calls by
\* concurrent threads the calls act as if run one at a time, in the order in
\* which they hold the lock: the tracker holds for each key the state of the
\* most recent update(k) with no later clear(k) and nothing otherwise, get(k)
\* returns just that, no call raises, and a step of update(k) or clear(k)
\* changes the entry of no other key.
C21_TrackerLinearizable ==
    /\ [](\A k \in Workspaces : Get(tracker, k) = linear[k])
    /\ [](\A t \in Threads : callers[t].ret # Raise("KeyError"))
    /\ [][\A t \in Threads :
            (callers[t].pc = "read" /\ callers'[t].pc = "release") =>
                callers'[t].ret = linear[callers[t].key]]_vars
    /\ [][\A k \in Touched :
            \E t \in Threads :
               /\ callers[t].pc \in {"store", "del"}
               /\ callers'[t].pc = "release"
               /\ callers[t].key = k]_vars

\* a get of one key has returned the state last given to update while the
\* other key is stored too, a second thread is about to delete that other
\* key and a third waits for the lock
C21_Witness ==
    \E t, u, w \in Threads, k, j \in Workspaces :
       /\ k # j /\ t # u /\ u # w /\ t # w
       /\ callers[t].pc = "idle"
       /\ callers[t].ret \in SnapshotsFor(k)
       /\ callers[t].ret = linear[k]
       /\ callers[u].pc = "del" /\ callers[u].key = j
       /\ j \in DOMAIN tracker
       /\ lock = u
       /\ callers[w].pc = "acquire"

\* C22: in every state of a run validation_errors equals the errors of
\* test_results when test_results is set and is empty while it is unset,
\* also after a Tester call that raised.
C22_ValidationErrorsMirror ==
    Started =>
        IF st.test_results = NoneResult
        THEN st.validation_errors = <<>>
        ELSE st.validation_errors = st.test_results.errors

\* the Tester of the second attempt raised, after the first attempt had
\* stored a result with an error
C22_Witness ==
    /\ pc = "route"
    /\ Len(outcomes) = 2
    /\ outcomes[1] = "fail" /\ outcomes[2] = "raise"
    /\ st.test_results # NoneResult
    /\ st.validation_errors = <<"missing import">>

IsPrefix(xs, ys) == Len(xs) <= Len(ys) /\ SubSeq(ys, 1, Len(xs)) = xs

C24_NodeOrder ==
    /\ [](runs.planner <= 1 /\ (runs.coder > 0 => runs.planner = 1))
    /\ [](Ended => (runs.planner = 1 /\ runs.coder = runs.tester))
    /\ [][runs'.planner # runs.planner => (pc = "planner" /\ runs.coder = 0)]_vars
    /\ [][runs'.tester # runs.tester =>
            (pc = "tester" /\ runs.coder = runs.tester + 1 /\ pc' = "route")]_vars
    /\ [][(pc' = "tester" /\ pc # "tester") => runs'.coder = runs.coder + 1]_vars
    /\ [][(pc' = "route" /\ pc # "route") => runs'.tester = runs.tester + 1]_vars
    /\ [][(pc' = "fixer" /\ pc # "fixer") => (pc = "route" /\ ~st.success)]_vars
    /\ [][runs'.fixer # runs.fixer =>
            (pc = "fixer" /\ ~st.success /\ pc' = "coder"
             /\ runs.fixer + 1 = runs.tester)]_vars

\* a run of three attempts has ended: one Planner, three Coder, three
\* Tester and two Fixer executions
C24_Witness ==
    /\ pc = "done"
    /\ runs = [planner |-> 1, coder |-> 3, tester |-> 3, fixer |-> 2]

\* C25: once a run has returned and its final state is the published
\* snapshot of its workspace, the status endpoint and the response of the
\* start request report the same status, which is complete or failed and
\* never processing, and the same current_step: complete when success is set
\* and failed when it is not.
C25_StatusAgreesWithResponse ==
    (pc = "done" /\ st.workspace_id \in DOMAIN tracker) =>
        LET summary == GetSummary(tracker, heap, st.workspace_id) IN
        /\ summary.status = response.status
        /\ summary.status \in {"complete", "failed"}
        /\ summary.current_step = response.current_step
        /\ response.current_step = IF st.success THEN COMPLETE ELSE FAILED

\* a failed run and the two views of it
C25_Witness ==
    /\ pc = "done"
    /\ ~st.success
    /\ st.workspace_id \in DOMAIN tracker
    /\ response.status = "failed"
    /\ GetSummary(tracker, heap, st.workspace_id).status = "failed"
    /\ GetSummary(tracker, heap, st.workspace_id).current_step = FAILED

\* the line a failing Tester execution logs to announce a retry
WillRetryLine(s) ==
    "[Tester] Will retry (attempt " \o ToString(s.attempt_count + 1) \o "/"
        \o ToString(s.max_attempts) \o ")"

\* the Tester execution that has just finished announced a retry
Announced ==
    /\ pc = "route"
    /\ heap[st.logs][Len(heap[st.logs])] = WillRetryLine(st)

\* C26: the Tester's announcement matches the routing: after a failing
\* Tester execution that logs "Will retry" the run goes to the Fixer (and
\* from there to another Coder execution), so a run that stops at the retry
\* ceiling does so after a Tester execution that did not log it.
C26_AnnouncementMatchesRouting ==
    [][(Announced /\ pc' # "route") => pc' = "fixer"]_vars

\* what the code keeps of it: the run goes to the Fixer only after the
\* announcement or after a Tester call that raised, and from the Fixer to
\* the Coder
C26_FixerOnlyAfterAnnouncement ==
    /\ [][(pc = "route" /\ pc' = "fixer") =>
             (Announced \/ LastOutcome = "raise")]_vars
    /\ [][(pc = "fixer" /\ pc' # "fixer") => pc' = "coder"]_vars

====
